---- MODULE Spec2Model ----
(***************************************************************************)
(* Model of src/index.js (athena_test_runner): submission of query files  *)
(* to Athena, the asyncInterval poll cycle (monitor / consolidateJobs /   *)
(* draw), the SIGINT handler and finishUp.                                *)
(*                                                                        *)
(* Node runs one callback at a time.  A step of this model is one         *)
(* callback (macrotask) or one promise continuation (microtask); the      *)
(* variable micro holds the continuation that the last callback queued,   *)
(* and no other callback runs until it has run.                           *)
(***************************************************************************)
EXTENDS Bags, FiniteSets, Integers, Sequences, TLC

\* ---- bounds of the model ------------------------------------------------
\* batchGetQueryExecution calls that may be unanswered at the same time
MaxInFlight == 2
\* SIGINT signals delivered during one run
MaxInterrupts == 1

\* ---- values -------------------------------------------------------------
\* a property that was never assigned
Undefined == "undefined"

QUEUED == "QUEUED"
RUNNING == "RUNNING"
SUCCEEDED == "SUCCEEDED"
FAILED == "FAILED"
CANCELLED == "CANCELLED"

\* QueryExecutionState of the Athena API
States == {QUEUED, RUNNING, SUCCEEDED, FAILED, CANCELLED}

TerminalStates == {SUCCEEDED, FAILED, CANCELLED}

\* the query files getAllFiles may find, in readdir order; a run reads any
\* prefix of them
FileNames == <<"q1.sql", "q2.sql">>

Units == 1..Len(FileNames)

\* path of the i-th query file
FileName(i) == FileNames[i]

\* QueryExecutionId that startQueryExecution returns for the i-th file
QueryExecutionId(i) == "qid" \o ToString(i)

\* err.message of a failed startQueryExecution
StartErrorMessage == "start failed"

\* ErrorMessage of an UnprocessedQueryExecutionId
UnprocessedMessage == "internal error"

\* Status.SubmissionDateTime, Status.CompletionDateTime,
\* Statistics.EngineExecutionTimeInMillis, Statistics.DataScannedInBytes
\* of one QueryExecution, as the service may report them
Statistics ==
    { [SubmissionDateTime |-> "t10", CompletionDateTime |-> Undefined,
       EngineExecutionTimeInMillis |-> "600", DataScannedInBytes |-> "1024"],
      [SubmissionDateTime |-> "t11", CompletionDateTime |-> "t20",
       EngineExecutionTimeInMillis |-> "1200", DataScannedInBytes |-> "2048"] }

\* ---- state --------------------------------------------------------------
VARIABLES
    phase,        \* "submitting": run awaits executeQueries; "polling": the
                  \* interval is armed; "exited": the process has ended
    nfiles,       \* number of files readFiles returned
    files,        \* the file objects (tasks), in readFiles order
    pendingStart, \* files whose startQueryExecution callback has not run
    jobIndex,     \* the object indexTasks built: key -> task
    INDEX,        \* global INDEX: Undefined, or a reference to jobIndex
    polls,        \* bag of unanswered batchGetQueryExecution calls
    micro,        \* the queued promise continuation
    interval,     \* var interval of run(): Undefined until asyncInterval returns
    stops,        \* bag of SIGINT handlers waiting on stopQueryExecution
    sigints,      \* SIGINT signals delivered so far
    results,      \* content of results.json
    written,      \* results.json has been written
    exitCode,     \* process exit code
    exitPath,     \* which call ended the process
    history       \* which history the run records: "none", "poll" (the
                  \* registry at the start of each cycle) or "stop" (the
                  \* statuses at each SIGINT)

vars == <<phase, nfiles, files, pendingStart, jobIndex, INDEX, polls, micro,
          interval, stops, sigints, results, written, exitCode, exitPath,
          history>>

\* ---- file objects -------------------------------------------------------
\* what readFiles resolves for one file (the query text is opaque here)
File(i) ==
    [name |-> IF i \in Units THEN FileName(i) ELSE Undefined, id |-> Undefined, status |-> Undefined,
     error |-> Undefined, starttime |-> Undefined, endtime |-> Undefined,
     runtime |-> Undefined, scanned |-> Undefined]

\* the object with no keys
EmptyIndex == [k \in {} |-> File(0)]

\* status of every task of an index
Statuses(tasks) == [k \in DOMAIN tasks |-> tasks[k].status]

\* no continuation queued.  type: which continuation; execs, failed: the
\* QueryExecutions and UnprocessedQueryExecutionIds of the answer that
\* resolved monitor; snap: the history carried by the poll or the handler
NoMicro == [type |-> "none", execs |-> {}, failed |-> {}, snap |-> EmptyIndex]

\* ---- initial state: run() has called executeQueries ------------------------
InitRun ==
    /\ phase = "submitting"
    /\ nfiles \in 0..Len(FileNames)
    /\ files = [i \in 1..nfiles |-> File(i)]
    /\ pendingStart = 1..nfiles
    /\ jobIndex = EmptyIndex
    /\ INDEX = Undefined
    /\ polls = EmptyBag
    /\ micro = NoMicro
    /\ interval = Undefined
    /\ stops = EmptyBag
    /\ sigints = 0
    /\ results = {}
    /\ written = FALSE
    /\ exitCode = -1
    /\ exitPath = "none"

Init == InitRun /\ history = "none"

\* the same run, recording the registry at the start of each cycle
InitPollHistory == InitRun /\ history = "poll"

\* the same run, recording the statuses at each SIGINT
InitStopHistory == InitRun /\ history = "stop"

\* ---- executeQueries --------------------------------------------------------
\* the err branch without the assignment of err.message
StartFailedWithoutMessage(file) ==
    [file EXCEPT !.status = FAILED]

\* the startQueryExecution callback of one file: err set
StartFailed(file) ==
    [file EXCEPT !.status = FAILED, !.error = StartErrorMessage]

\* the startQueryExecution callback of one file: results set
StartSucceeded(file, qid) ==
    [file EXCEPT !.id = qid, !.status = QUEUED]

\* one startQueryExecution callback runs, with or without err
StartQueryCallback(i) ==
    /\ phase = "submitting"
    /\ i \in pendingStart
    /\ \E err \in BOOLEAN :
          files' = [files EXCEPT ![i] =
                       IF err THEN StartFailed(files[i])
                              ELSE StartSucceeded(files[i], QueryExecutionId(i))]
    /\ pendingStart' = pendingStart \ {i}
    /\ UNCHANGED <<phase, nfiles, jobIndex, INDEX, polls, micro, interval,
                   stops, sigints, results, written, exitCode, exitPath,
                   history>>

\* ---- indexTasks ------------------------------------------------------------
\* the property name task.id becomes in idx[task.id]: an absent id is the
\* key "undefined"
KeyOf(task) == task.id

\* idx after tasks.forEach: a later task with the same key replaces an
\* earlier one
indexTasks(tasks) ==
    LET keys == {KeyOf(tasks[i]) : i \in DOMAIN tasks}
        last(k) == CHOOSE i \in DOMAIN tasks :
                      /\ KeyOf(tasks[i]) = k
                      /\ \A j \in DOMAIN tasks : KeyOf(tasks[j]) = k => j <= i
    IN  [k \in keys |-> tasks[last(k)]]

\* Promise.all(tasks) has resolved: run() builds the index and arms the
\* interval
RunIndexTasks ==
    /\ phase = "submitting"
    /\ pendingStart = {}
    /\ jobIndex' = indexTasks(files)
    /\ interval' = "armed"
    /\ phase' = "polling"
    /\ UNCHANGED <<nfiles, files, pendingStart, INDEX, polls, micro, stops,
                   sigints, results, written, exitCode, exitPath, history>>

\* ---- getRunningJobs --------------------------------------------------------
\* getRunningJobs without the QUEUED test
getRunningJobsRunningOnly(tasks) ==
    {tasks[k].id : k \in {x \in DOMAIN tasks : tasks[x].status = RUNNING}}

\* getRunningJobs without any status test
getRunningJobsOfAllTasks(tasks) ==
    {tasks[k].id : k \in DOMAIN tasks}

getRunningJobs(tasks) ==
    {tasks[k].id : k \in {x \in DOMAIN tasks :
                            tasks[x].status = QUEUED \/ tasks[x].status = RUNNING}}

\* ---- finishUp --------------------------------------------------------------
\* Object.values(jobs), as JSON.stringify writes it (order not modelled)
ObjectValues(jobs) == {jobs[k] : k \in DOMAIN jobs}

\* finishUp(jobs) on the path named by path: results.json is written and the
\* process exits with code 0
finishUp(jobs, path) ==
    /\ results' = ObjectValues(jobs)
    /\ written' = TRUE
    /\ exitCode' = 0
    /\ exitPath' = path
    /\ phase' = "exited"

\* ---- monitor ---------------------------------------------------------------
\* one unanswered batchGetQueryExecution call: the ids it asked for, and
\* (history "poll") the registry at the moment the cycle started
Poll(tasks) ==
    [ids |-> getRunningJobs(tasks),
     snap |-> IF history = "poll" THEN tasks ELSE EmptyIndex]

\* the interval fires: the async callback runs up to `await monitor(jobIndex)`.
\* The callback never calls done, so the interval's own timeout (2000 ms)
\* re-arms it whether or not the previous call has been answered.
Tick ==
    /\ phase = "polling"
    /\ micro.type = "none"
    /\ IF getRunningJobs(jobIndex) = {}
       THEN /\ micro' = [NoMicro EXCEPT !.type = "finish"]
            /\ UNCHANGED polls
       ELSE /\ BagCardinality(polls) < MaxInFlight
            /\ polls' = polls (+) SetToBag({Poll(jobIndex)})
            /\ UNCHANGED micro
    /\ UNCHANGED <<phase, nfiles, files, pendingStart, jobIndex, INDEX,
                   interval, stops, sigints, results, written, exitCode,
                   exitPath, history>>

\* a QueryExecution without Status times or Statistics
NoStatistics ==
    [SubmissionDateTime |-> Undefined, CompletionDateTime |-> Undefined,
     EngineExecutionTimeInMillis |-> Undefined, DataScannedInBytes |-> Undefined]

\* the Status times and Statistics the service reports with state s: a
\* completion time only once the query has ended
StatisticsOf(s) ==
    {st \in Statistics :
        (st.CompletionDateTime = Undefined) <=> (s \in {QUEUED, RUNNING})}

\* what the service may say about one id of a call: a QueryExecution in any
\* state, an UnprocessedQueryExecutionId, or nothing
Answers ==
    UNION {{[kind |-> "execution", State |-> s, Stats |-> st] :
               st \in StatisticsOf(s)} : s \in States}
    \cup {[kind |-> k, State |-> Undefined, Stats |-> NoStatistics] :
            k \in {"unprocessed", "omitted"}}

\* results.QueryExecutions of an answer
QueryExecutions(ans) ==
    {[QueryExecutionId |-> id, State |-> ans[id].State, Stats |-> ans[id].Stats] :
        id \in {x \in DOMAIN ans : ans[x].kind = "execution"}}

\* results.UnprocessedQueryExecutionIds of an answer
UnprocessedQueryExecutionIds(ans) ==
    {[QueryExecutionId |-> id, ErrorMessage |-> UnprocessedMessage] :
        id \in {x \in DOMAIN ans : ans[x].kind = "unprocessed"}}

\* the forEach body writing the times and statistics whatever the state
UpdateTaskAlwaysStatistics(t, item) ==
    [t EXCEPT !.status = item.State,
              !.starttime = item.Stats.SubmissionDateTime,
              !.endtime = item.Stats.CompletionDateTime,
              !.runtime = item.Stats.EngineExecutionTimeInMillis,
              !.scanned = item.Stats.DataScannedInBytes]

\* body of results.QueryExecutions.forEach for one item
UpdateTask(t, item) ==
    LET t1 == [t EXCEPT !.status = item.State]
    IN  IF t1.status = SUCCEEDED \/ t1.status = RUNNING
        THEN [t1 EXCEPT !.starttime = item.Stats.SubmissionDateTime,
                        !.endtime = item.Stats.CompletionDateTime,
                        !.runtime = item.Stats.EngineExecutionTimeInMillis,
                        !.scanned = item.Stats.DataScannedInBytes]
        ELSE t1

\* tasks after results.QueryExecutions.forEach
ApplyExecutions(tasks, execs) ==
    [k \in DOMAIN tasks |->
        IF \E item \in execs : item.QueryExecutionId = k
        THEN UpdateTask(tasks[k],
                        CHOOSE item \in execs : item.QueryExecutionId = k)
        ELSE tasks[k]]

\* the batchGetQueryExecution callback runs without err: statuses are
\* overwritten and the promise resolves with {runs, failed}
PollResponse ==
    /\ phase = "polling"
    /\ micro.type = "none"
    /\ \E p \in BagToSet(polls) : \E ans \in [p.ids -> Answers] :
          /\ polls' = polls (-) SetToBag({p})
          /\ jobIndex' = ApplyExecutions(jobIndex, QueryExecutions(ans))
          /\ micro' = [type |-> "consolidate",
                       execs |-> QueryExecutions(ans),
                       failed |-> UnprocessedQueryExecutionIds(ans),
                       snap |-> p.snap]
    /\ UNCHANGED <<phase, nfiles, files, pendingStart, INDEX, interval, stops,
                   sigints, results, written, exitCode, exitPath, history>>

\* the batchGetQueryExecution callback runs with err: the promise rejects
PollError ==
    /\ phase = "polling"
    /\ micro.type = "none"
    /\ \E p \in BagToSet(polls) :
          /\ polls' = polls (-) SetToBag({p})
          /\ micro' = [NoMicro EXCEPT !.type = "reject", !.snap = p.snap]
    /\ UNCHANGED <<phase, nfiles, files, pendingStart, jobIndex, INDEX,
                   interval, stops, sigints, results, written, exitCode,
                   exitPath, history>>

\* ---- consolidateJobs -------------------------------------------------------
\* jobs.failed.forEach without the assignment of ErrorMessage
MarkFailedWithoutError(index, failed) ==
    [k \in DOMAIN index |->
        IF \E i \in failed : i.QueryExecutionId = k
        THEN [index[k] EXCEPT !.status = FAILED]
        ELSE index[k]]

\* jobs.failed.forEach appending ErrorMessage to the error already recorded
MarkFailedAppendingError(index, failed) ==
    [k \in DOMAIN index |->
        IF \E i \in failed : i.QueryExecutionId = k
        THEN [index[k] EXCEPT
                 !.status = FAILED,
                 !.error = @ \o (CHOOSE i \in failed : i.QueryExecutionId = k).ErrorMessage]
        ELSE index[k]]

\* jobs.failed.forEach
MarkFailed(index, failed) ==
    [k \in DOMAIN index |->
        IF \E i \in failed : i.QueryExecutionId = k
        THEN [index[k] EXCEPT
                 !.status = FAILED,
                 !.error = (CHOOSE i \in failed : i.QueryExecutionId = k).ErrorMessage]
        ELSE index[k]]

\* consolidateJobs copying only the tasks that are still QUEUED or RUNNING
consolidateJobsOfRunningTasks(index, jobs) ==
    MarkFailed([k \in {x \in DOMAIN index :
                          jobs.runs[x].status \in {QUEUED, RUNNING}} |->
                   jobs.runs[k]], jobs.failed)

consolidateJobs(index, jobs) ==
    MarkFailed([k \in DOMAIN index |-> jobs.runs[k]], jobs.failed)

\* ---- the interval callback after `await monitor(jobIndex)` -----------------
\* jobs == undefined: finishUp(jobIndex)
RunFinish ==
    /\ phase = "polling"
    /\ micro.type = "finish"
    /\ finishUp(jobIndex, "poll")
    /\ UNCHANGED <<nfiles, files, pendingStart, jobIndex, INDEX, polls, micro,
                   interval, stops, sigints, history>>

\* jobs is {runs, failed}: consolidateJobs, INDEX = jobIndex, draw
RunConsolidate ==
    /\ phase = "polling"
    /\ micro.type = "consolidate"
    /\ jobIndex' = consolidateJobs(jobIndex,
                                   [runs |-> jobIndex, failed |-> micro.failed])
    /\ INDEX' = "jobIndex"
    /\ micro' = NoMicro
    /\ UNCHANGED <<phase, nfiles, files, pendingStart, polls, interval, stops,
                   sigints, results, written, exitCode, exitPath, history>>

\* a catch block that calls finishUp(jobIndex) instead of process.exit(1)
RunCatchFinishingUp ==
    /\ phase = "polling"
    /\ micro.type = "reject"
    /\ finishUp(jobIndex, "pollError")
    /\ UNCHANGED <<nfiles, files, pendingStart, jobIndex, INDEX, polls, micro,
                   interval, stops, sigints, history>>

\* monitor rejected: the catch block logs and calls process.exit(1)
RunCatch ==
    /\ phase = "polling"
    /\ micro.type = "reject"
    /\ exitCode' = 1
    /\ exitPath' = "pollError"
    /\ phase' = "exited"
    /\ UNCHANGED <<nfiles, files, pendingStart, jobIndex, INDEX, polls, micro,
                   interval, stops, sigints, results, written, history>>

\* ---- process.on("SIGINT") --------------------------------------------------
\* one handler run that waits on Promise.all(p): the ids whose
\* stopQueryExecution callback has not run, and (history "stop") the
\* statuses at the moment the signal was handled
Stop(tasks) ==
    [pending |-> getRunningJobs(tasks),
     snap |-> IF history = "stop" THEN Statuses(tasks) ELSE EmptyIndex]

\* a SIGINT handler that could also run between monitor's callback and the
\* continuation of `await monitor(jobIndex)`
InterruptBeforeContinuation ==
    /\ phase \in {"submitting", "polling"}
    /\ micro.type \in {"none", "consolidate"}
    /\ sigints < MaxInterrupts
    /\ sigints' = sigints + 1
    /\ IF INDEX = Undefined
       THEN /\ exitCode' = 1
            /\ exitPath' = "sigintThrow"
            /\ phase' = "exited"
            /\ UNCHANGED <<stops, micro>>
       ELSE /\ IF getRunningJobs(jobIndex) = {}
               THEN /\ micro' = [NoMicro EXCEPT !.type = "cancelDone",
                                                !.snap = Stop(jobIndex).snap]
                    /\ UNCHANGED stops
               ELSE /\ stops' = stops (+) SetToBag({Stop(jobIndex)})
                    /\ UNCHANGED micro
            /\ UNCHANGED <<phase, exitCode, exitPath>>
    /\ UNCHANGED <<nfiles, files, pendingStart, jobIndex, INDEX, polls,
                   interval, results, written, history>>

\* SIGINT is delivered and the handler runs up to Promise.all(p).then.
\* getRunningJobs(INDEX) throws a TypeError while INDEX is undefined; the
\* uncaught exception ends the process with code 1.
Interrupt ==
    /\ phase \in {"submitting", "polling"}
    /\ micro.type = "none"
    /\ sigints < MaxInterrupts
    /\ sigints' = sigints + 1
    /\ IF INDEX = Undefined
       THEN /\ exitCode' = 1
            /\ exitPath' = "sigintThrow"
            /\ phase' = "exited"
            /\ UNCHANGED <<stops, micro>>
       ELSE /\ IF getRunningJobs(jobIndex) = {}
               THEN /\ micro' = [NoMicro EXCEPT !.type = "cancelDone",
                                                !.snap = Stop(jobIndex).snap]
                    /\ UNCHANGED stops
               ELSE /\ stops' = stops (+) SetToBag({Stop(jobIndex)})
                    /\ UNCHANGED micro
            /\ UNCHANGED <<phase, exitCode, exitPath>>
    /\ UNCHANGED <<nfiles, files, pendingStart, jobIndex, INDEX, polls,
                   interval, results, written, history>>

\* a stopQueryExecution callback that marks the task CANCELLED on success
StopCallbackMarkingCancelled ==
    /\ phase = "polling"
    /\ micro.type = "none"
    /\ \E h \in BagToSet(stops) : \E id \in h.pending : \E err \in BOOLEAN :
          /\ jobIndex' = IF err THEN jobIndex
                         ELSE [jobIndex EXCEPT ![id].status = CANCELLED]
          /\ IF h.pending = {id}
             THEN /\ stops' = stops (-) SetToBag({h})
                  /\ micro' = [NoMicro EXCEPT !.type = "cancelDone",
                                              !.snap = h.snap]
             ELSE /\ stops' = (stops (-) SetToBag({h}))
                                (+) SetToBag({[h EXCEPT !.pending = @ \ {id}]})
                  /\ UNCHANGED micro
    /\ UNCHANGED <<phase, nfiles, files, pendingStart, INDEX, polls,
                   interval, sigints, results, written, exitCode, exitPath,
                   history>>

\* one stopQueryExecution callback runs (err and result are both ignored);
\* the last one of a handler resolves its Promise.all
StopCallback ==
    /\ phase = "polling"
    /\ micro.type = "none"
    /\ \E h \in BagToSet(stops) : \E id \in h.pending : \E err \in BOOLEAN :
          IF h.pending = {id}
          THEN /\ stops' = stops (-) SetToBag({h})
               /\ micro' = [NoMicro EXCEPT !.type = "cancelDone",
                                           !.snap = h.snap]
          ELSE /\ stops' = (stops (-) SetToBag({h}))
                             (+) SetToBag({[h EXCEPT !.pending = @ \ {id}]})
               /\ UNCHANGED micro
    /\ UNCHANGED <<phase, nfiles, files, pendingStart, jobIndex, INDEX, polls,
                   interval, sigints, results, written, exitCode, exitPath,
                   history>>

\* Promise.all(p).then: finishUp(INDEX)
SigintThen ==
    /\ phase = "polling"
    /\ micro.type = "cancelDone"
    /\ finishUp(jobIndex, "cancel")
    /\ UNCHANGED <<nfiles, files, pendingStart, jobIndex, INDEX, polls, micro,
                   interval, stops, sigints, history>>

\* ---- the program -----------------------------------------------------------
Next ==
    \/ \E i \in Units : StartQueryCallback(i)
    \/ RunIndexTasks
    \/ Tick
    \/ PollResponse
    \/ PollError
    \/ RunFinish
    \/ RunConsolidate
    \/ RunCatch
    \/ Interrupt
    \/ StopCallback
    \/ SigintThen

Spec == Init /\ [][Next]_vars

\* the same program, recording the registry at the start of each cycle
SpecPollHistory == InitPollHistory /\ [][Next]_vars

\* the same program, recording the statuses at each SIGINT
SpecStopHistory == InitStopHistory /\ [][Next]_vars

\* the same program under the scheduling Node guarantees (the interval fires,
\* queued continuations run) and a service that answers every call
FairSpec ==
    /\ Spec
    /\ WF_vars(Tick)
    /\ WF_vars(RunIndexTasks)
    /\ WF_vars(RunFinish)
    /\ WF_vars(RunConsolidate)
    /\ WF_vars(RunCatch)
    /\ WF_vars(SigintThen)
    /\ WF_vars(PollResponse)

\* ---- properties ------------------------------------------------------------
\* every task of an index has a terminal status
AllTerminal(tasks) == \A k \in DOMAIN tasks : tasks[k].status \in TerminalStates

\* cycles whose batchGetQueryExecution call was issued and whose
\* consolidation (or catch) has not yet run
Outstanding ==
    BagCardinality(polls)
      + (IF micro.type \in {"consolidate", "reject"} THEN 1 ELSE 0)

\* this step starts a poll cycle: the interval callback ran monitor
CycleStarts ==
    \/ BagCardinality(polls') > BagCardinality(polls)
    \/ micro.type = "none" /\ micro'.type = "finish"

\* C1: once indexTasks has built the Registry it has exactly one entry per
\* submitted unit, however many submissions failed.
C1_RegistryHasOneEntryPerUnit ==
    interval = "armed" => Cardinality(DOMAIN jobIndex) = nfiles

\* C2: once a Job's status is SUCCEEDED, FAILED or CANCELLED, no step (neither
\* the status overwrite of monitor's callback nor the FAILED-marking of
\* consolidateJobs) changes it.
C2_TerminalStatusNeverChanges ==
    [][\A k \in DOMAIN jobIndex :
          jobIndex[k].status \in TerminalStates
             => jobIndex'[k].status = jobIndex[k].status]_vars

\* C3: whenever the poll path has decided to finish (monitor resolved
\* undefined) or has finished, every Job of the Registry is SUCCEEDED, FAILED
\* or CANCELLED, and so is every Job written to results.json.
C3_PollPathFinishesOnlyWhenAllTerminal ==
    /\ micro.type = "finish" => AllTerminal(jobIndex)
    /\ exitPath = "poll" =>
          /\ AllTerminal(jobIndex)
          /\ written
          /\ results = ObjectValues(jobIndex)
          /\ \A job \in results : job.status \notin {QUEUED, RUNNING}

\* C3 witness: the poll path has finished a run of two Jobs that were polled.
C3_Witness ==
    /\ exitPath = "poll"
    /\ Cardinality(results) = Len(FileNames)
    /\ \E job \in results : job.status = SUCCEEDED
    /\ \E job \in results : job.status = CANCELLED

\* C4: if every Job of the Registry is terminal, then the poll path
\* eventually finishes (finishUp, exit code 0), unless a SIGINT or a failed
\* batchGetQueryExecution call occurs.
C4_AllTerminalLeadsToTerminal ==
    (phase = "polling" /\ AllTerminal(jobIndex))
       ~> \/ exitPath = "poll" /\ written /\ exitCode = 0
          \/ sigints > 0
          \/ micro.type = "reject"

\* C5: a run that was interrupted while the interval was armed ends with
\* results.json written and exit code 0.
C5_InterruptEndsFinalizedWithExitZero ==
    (interval = "armed" /\ sigints > 0 /\ phase = "exited")
       => (written /\ exitCode = 0)

\* C6: after a SIGINT no poll cycle starts.
C6_NoCycleStartsAfterInterrupt ==
    [][(sigints > 0 /\ phase = "polling") => ~CycleStarts]_vars

\* C7: when the run ends through the SIGINT handler, every Job is written
\* with the status it had when the signal was handled.
C7_CancelWritesStatusesAtInterrupt ==
    (history = "stop" /\ exitPath = "cancel")
       => \A job \in results : job.status = micro.snap[KeyOf(job)]

\* C8: at most one poll cycle is outstanding at any time.
C8_AtMostOneCycleOutstanding == Outstanding <= 1

\* C9: when batchGetQueryExecution fails the run ends with exit code 1 and
\* the Registry is as it was when that cycle started.
C9_FailedPollLeavesRegistryAsAtCycleStart ==
    (history = "poll" /\ exitPath = "pollError")
       => (exitCode = 1 /\ jobIndex = micro.snap)

\* C10: the consolidation of an answer sets every unprocessed id to FAILED
\* with the service's message, leaves every other Job of the answer with the
\* status its QueryExecution reported, and does not end the run.
C10_UnprocessedFailedOthersAsReported ==
    [][micro.type = "consolidate" =>
          /\ \A i \in micro.failed :
                /\ jobIndex'[i.QueryExecutionId].status = FAILED
                /\ jobIndex'[i.QueryExecutionId].error = i.ErrorMessage
          /\ \A e \in micro.execs :
                jobIndex'[e.QueryExecutionId].status = e.State
          /\ phase' = "polling"
          /\ exitPath' = "none"
          /\ interval' = "armed"
          /\ ~written']_vars

\* C10 witness: a consolidation has marked one Job FAILED with the service's
\* message while the other Job of the call is RUNNING, and the run goes on.
C10_Witness ==
    /\ phase = "polling"
    /\ micro.type = "none"
    /\ INDEX # Undefined
    /\ \E k1, k2 \in DOMAIN jobIndex :
          /\ jobIndex[k1].status = FAILED
          /\ jobIndex[k1].error = UnprocessedMessage
          /\ jobIndex[k2].status = RUNNING

\* the four fields monitor writes with a RUNNING or SUCCEEDED state
Timing(t) == <<t.starttime, t.endtime, t.runtime, t.scanned>>

\* the same four values of a QueryExecution
Reported(item) ==
    <<item.Stats.SubmissionDateTime, item.Stats.CompletionDateTime,
      item.Stats.EngineExecutionTimeInMillis, item.Stats.DataScannedInBytes>>

\* ids of a set of QueryExecutions or UnprocessedQueryExecutionIds
IdsOf(items) == {i.QueryExecutionId : i \in items}

\* keys of the tasks of an index whose status is QUEUED or RUNNING
NonTerminalKeys(tasks) ==
    {k \in DOMAIN tasks : tasks[k].status \in {QUEUED, RUNNING}}

\* C11: in the consolidation of an answer, monitor's callback gives every Job
\* of the payload the reported status, gives it the reported start time, end
\* time, runtime and bytes scanned when that status is RUNNING or SUCCEEDED
\* and leaves those four fields alone otherwise, and changes no other Job;
\* consolidateJobs then changes only the unprocessed Jobs.  A Job in neither
\* list is unchanged in every field.
C11_ConsolidationWritesReportedFields ==
    [][/\ (micro.type = "none" /\ micro'.type = "consolidate") =>
             /\ \A e \in micro'.execs :
                   LET old == jobIndex[e.QueryExecutionId]
                       new == jobIndex'[e.QueryExecutionId]
                   IN  /\ new.status = e.State
                       /\ Timing(new) = IF e.State \in {RUNNING, SUCCEEDED}
                                        THEN Reported(e) ELSE Timing(old)
                       /\ new.name = old.name /\ new.id = old.id
                       /\ new.error = old.error
             /\ \A k \in DOMAIN jobIndex \ IdsOf(micro'.execs) :
                   jobIndex'[k] = jobIndex[k]
       /\ micro.type = "consolidate" =>
             \A k \in DOMAIN jobIndex \ IdsOf(micro.failed) :
                jobIndex'[k] = jobIndex[k]]_vars

\* C11 witness: after a consolidation one Job is FAILED as reported and keeps
\* the times and statistics of its RUNNING report, the other is SUCCEEDED with
\* the reported runtime 1200 and 2048 bytes.
C11_Witness ==
    /\ micro.type = "none"
    /\ INDEX # Undefined
    /\ \E k1, k2 \in DOMAIN jobIndex :
          /\ jobIndex[k1].status = FAILED
          /\ jobIndex[k1].error = Undefined
          /\ jobIndex[k1].runtime = "600"
          /\ jobIndex[k2].status = SUCCEEDED
          /\ jobIndex[k2].runtime = "1200"
          /\ jobIndex[k2].scanned = "2048"

\* C12: applying the answer that was just consolidated a second time
\* (monitor's forEach, then consolidateJobs) leaves the Registry as it is.
C12_ConsolidationIdempotent ==
    [][micro.type = "consolidate" =>
          consolidateJobs(ApplyExecutions(jobIndex', micro.execs),
                          [runs |-> ApplyExecutions(jobIndex', micro.execs),
                           failed |-> micro.failed]) = jobIndex']_vars

\* C12 witness: a consolidation has changed both kinds of Job: one SUCCEEDED
\* with reported statistics, one unprocessed and FAILED.
C12_Witness ==
    /\ micro.type = "none"
    /\ INDEX # Undefined
    /\ \E k1, k2 \in DOMAIN jobIndex :
          /\ jobIndex[k1].status = FAILED
          /\ jobIndex[k1].error = UnprocessedMessage
          /\ jobIndex[k2].status = SUCCEEDED
          /\ jobIndex[k2].endtime = "t20"

\* C13: the call a cycle issues asks for exactly the Jobs that are QUEUED or
\* RUNNING when the cycle starts; it is never empty and never asks for a Job
\* without id, and a cycle that finds no such Job issues no call.
C13_PollAsksExactlyNonTerminalJobs ==
    [][/\ (phase = "polling" /\ polls' # polls /\ micro' = micro) =>
          LET new == BagToSet(polls' (-) polls)
          IN  /\ BagCardinality(polls' (-) polls) = 1
              /\ \A p \in new :
                    /\ p.ids = NonTerminalKeys(jobIndex)
                    /\ p.ids # {}
                    /\ Undefined \notin p.ids
                    /\ \A id \in p.ids : jobIndex[id].id = id
       /\ (micro.type = "none" /\ micro'.type = "finish") =>
             (polls' = polls /\ NonTerminalKeys(jobIndex) = {})]_vars

\* C13 witness: a call is outstanding for one Job while the Registry also
\* holds a Job without id and the asked Job's neighbour is not asked for.
C13_Witness ==
    /\ Undefined \in DOMAIN jobIndex
    /\ \E p \in BagToSet(polls) : p.ids = {QueryExecutionId(2)}

\* C14: every startQueryExecution callback turns its own file into a Job with
\* the returned id and status QUEUED, or into a Job without id, with status
\* FAILED and the error message, and changes no other file; when all have
\* run there is one Job per file.
C14_SubmitterIsolatesUnits ==
    [][\A i \in pendingStart \ pendingStart' :
          /\ \/ files'[i] = [File(i) EXCEPT !.id = QueryExecutionId(i),
                                            !.status = QUEUED]
             \/ files'[i] = [File(i) EXCEPT !.status = FAILED,
                                            !.error = StartErrorMessage]
          /\ DOMAIN files' = 1..nfiles
          /\ \A j \in DOMAIN files : j # i => files'[j] = files[j]]_vars

\* C14 witness: the submitter has finished: the first file failed and the
\* second is QUEUED.
C14_Witness ==
    /\ pendingStart = {}
    /\ nfiles = Len(FileNames)
    /\ files[1].status = FAILED
    /\ files[1].id = Undefined
    /\ files[2].status = QUEUED
    /\ files[2].id = QueryExecutionId(2)

\* C15: each run of the SIGINT handler issues one stopQueryExecution for
\* every Job of the Registry that is QUEUED or RUNNING when the signal is
\* handled, and none for any other Job.
C15_InterruptCancelsEveryNonTerminalJob ==
    [][sigints' = sigints + 1 =>
          LET new == stops' (-) stops
          IN  /\ BagCardinality(new) <= 1
              /\ UNION {h.pending : h \in BagToSet(new)}
                    = NonTerminalKeys(jobIndex)]_vars

\* C16: the run does not end while a stopQueryExecution issued by a SIGINT
\* handler has not been answered, other than through the finishUp of another
\* handler whose own requests have all been answered.
C16_NoEndWhileCancellationUnresolved ==
    phase = "exited" => (exitPath = "cancel" \/ stops = EmptyBag)

\* C17: the SIGINT handler never reads the Registry between monitor's
\* callback, which overwrites the reported statuses, and the continuation
\* that runs consolidateJobs, which marks the unprocessed ids FAILED.
C17_InterruptNeverInsideConsolidation ==
    [][sigints' # sigints => micro.type # "consolidate"]_vars

\* C17 witness: a handler has read the Registry and waits for its requests
\* while a cycle is outstanding and an earlier consolidation has marked an
\* unprocessed Job FAILED.
C17_Witness ==
    /\ stops # EmptyBag
    /\ polls # EmptyBag
    /\ \E k \in DOMAIN jobIndex :
          /\ jobIndex[k].status = FAILED
          /\ jobIndex[k].error = UnprocessedMessage

\* C18: once run() has built the Registry its set of keys never changes.
C18_RegistryKeysNeverChange ==
    [][interval = "armed" => DOMAIN jobIndex' = DOMAIN jobIndex]_vars

\* C18 witness: the run has ended through the SIGINT handler after cycles
\* that consolidated answers, with both Jobs in the Registry.
C18_Witness ==
    /\ exitPath = "cancel"
    /\ Cardinality(DOMAIN jobIndex) = Len(FileNames)
    /\ \E k \in DOMAIN jobIndex : jobIndex[k].status = SUCCEEDED
    /\ \E k \in DOMAIN jobIndex : jobIndex[k].error = UnprocessedMessage

\* C19: the steps of the SIGINT handler (reading the ids, the
\* stopQueryExecution callbacks, the finishUp after Promise.all) leave every
\* Job of the Registry as it was, and the document the handler writes holds
\* the Jobs as the Registry has them.
C19_HandlerNeverWritesRegistry ==
    [][(sigints' # sigints \/ stops' # stops \/ micro.type = "cancelDone") =>
          /\ jobIndex' = jobIndex
          /\ INDEX' = INDEX
          /\ written' => results' = ObjectValues(jobIndex)]_vars

\* C19 witness: the handler has written the document after its requests were
\* answered, and a Job it asked to stop is still RUNNING in it.
C19_Witness ==
    /\ exitPath = "cancel"
    /\ written
    /\ \E job \in results : job.status = RUNNING

\* C20: a run that ends because batchGetQueryExecution failed exits with
\* code 1 and has written no results document.
C20_PollErrorExitsWithoutResults ==
    exitPath = "pollError" => (exitCode = 1 /\ ~written /\ results = {})

\* C20 witness: the run ended on a failed call after an earlier cycle had
\* recorded a SUCCEEDED Job in the Registry.
C20_Witness ==
    /\ exitPath = "pollError"
    /\ INDEX # Undefined
    /\ \E k \in DOMAIN jobIndex : jobIndex[k].status = SUCCEEDED

====
